---------------------------- MODULE Spec2Model ----------------------------
(***************************************************************************)
(* A model of the stamina API (src/main.py): the three module-level       *)
(* dictionaries user_data, share_codes and professional_accounts, and the *)
(* request handlers that read and write them.  The handlers are plain     *)
(* `def` endpoints, which the framework runs on a thread pool, so several  *)
(* requests execute at once and a thread may be preempted between any two  *)
(* accesses to the shared dictionaries.  Each handler is therefore cut     *)
(* into steps, one per access to shared state; a step is atomic (the       *)
(* interpreter lock makes a single dictionary or list operation atomic).   *)
(***************************************************************************)
EXTENDS Integers, Sequences, FiniteSets, Bags, TLC

VARIABLES
    user_data,              \* main.py:32   userID -> reading
    share_codes,            \* main.py:19   ordered dict code -> userID, as a sequence of entries
    professional_accounts,  \* main.py:20   professionalID -> reference to an account object
    heap,                   \* the account objects (dicts) that references point to
    th,                     \* the handlers under way on the worker threads: a bag of frames,
                            \* each the position and locals of one handler
    now,                    \* the wall clock's time of day
    last,                   \* the response the step just taken sent, if it sent one
    returned,               \* every <<userID, code>> a generate-share-code response has carried
    posted                  \* per userID, the score and time of the POST /stamina that last stored

vars == <<user_data, share_codes, professional_accounts, heap, th, now, last,
          returned, posted>>

stores == <<user_data, share_codes, professional_accounts, heap>>

-----------------------------------------------------------------------------
(* Bounds of the model *)

\* worker threads of the pool
NThreads == 2
\* size of the share-code space (36^6 in the program)
NCodes == 2
\* distinct times of day the clock shows (86400 seconds in the program)
NClock == 2

\* main.py:201
MAX_CLIENTS == 10

\* A share code is modelled by its index in the code space.
Codes == 1..NCodes

\* A string that is no member of the code space (e.g. a mistyped code).
BadCode == 0

-----------------------------------------------------------------------------
(* User identifiers are strings: sequences of characters. *)

Lower == {"a","b","c","d","e","f","g","h","i","j","k","l","m",
          "n","o","p","q","r","s","t","u","v","w","x","y","z"}
Upper == {"A","B","C","D","E","F","G","H","I","J","K","L","M",
          "N","O","P","Q","R","S","T","U","V","W","X","Y","Z"}
Digit == {"0","1","2","3","4","5","6","7","8","9"}

\* the character class [a-zA-Z0-9._-]
IdChars == Lower \cup Upper \cup Digit \cup {".", "_", "-"}

AllIn(s, S) == \A i \in 1..Len(s) : s[i] \in S

\* re.match(r'^[a-zA-Z0-9._-]+$', s): one or more characters of the class up
\* to the end of the string, where `$` also matches just before a newline
\* that ends the string.
MatchesIdPattern(s) ==
    \/ Len(s) >= 1 /\ AllIn(s, IdChars)
    \/ /\ Len(s) >= 2
       /\ s[Len(s)] = "\n"
       /\ AllIn(SubSeq(s, 1, Len(s) - 1), IdChars)

is_valid_user_id(user_id) == MatchesIdPattern(user_id) /\ Len(user_id) > 5

\* the bands with the first threshold exclusive
get_color_ExclusiveBlue(stamina_score) ==
    IF stamina_score > 91 THEN "blue"
    ELSE IF stamina_score >= 86 THEN "green"
    ELSE IF stamina_score >= 76 THEN "green-yellow"
    ELSE IF stamina_score >= 51 THEN "yellow"
    ELSE IF stamina_score >= 40 THEN "yellow-orange"
    ELSE IF stamina_score >= 30 THEN "orange"
    ELSE "red"

\* lines 43-57
get_color(stamina_score) ==
    IF stamina_score >= 91 THEN "blue"
    ELSE IF stamina_score >= 86 THEN "green"
    ELSE IF stamina_score >= 76 THEN "green-yellow"
    ELSE IF stamina_score >= 51 THEN "yellow"
    ELSE IF stamina_score >= 40 THEN "yellow-orange"
    ELSE IF stamina_score >= 30 THEN "orange"
    ELSE "red"

\* datetime.now(cst).strftime("%I:%M:%S %p CST"): the time of day, the date dropped
Timestamp(clock) == clock % NClock

-----------------------------------------------------------------------------
(* The ordered dictionary share_codes *)

CodeKeys(sc) == {sc[i].code : i \in 1..Len(sc)}

\* share_codes[code]
CodeLookup(sc, code) ==
    sc[CHOOSE i \in 1..Len(sc) : sc[i].code = code].uid

\* share_codes[code] = uid: a new key is appended, an existing key keeps its place
CodeAssign(sc, code, uid) ==
    IF code \in CodeKeys(sc)
    THEN [i \in 1..Len(sc) |->
            IF sc[i].code = code THEN [code |-> code, uid |-> uid] ELSE sc[i]]
    ELSE Append(sc, [code |-> code, uid |-> uid])

\* x in list
InList(x, l) == \E i \in 1..Len(l) : l[i] = x

-----------------------------------------------------------------------------
(* The strings that stand for a userID in logs and responses *)

Ellipsis == <<".", ".", ".">>

\* uid[:8]: the whole string when it has at most 8 characters
Head8(uid) == SubSeq(uid, 1, IF Len(uid) < 8 THEN Len(uid) ELSE 8)

\* lines 112 and 246: f"{uid[:8]}..." if len(uid) > 8 else uid
user_display(uid) == IF Len(uid) > 8 THEN Head8(uid) \o Ellipsis ELSE uid

\* lines 137 and 273: f"{uid[:8]}..."
DebugDisplay(uid) == Head8(uid) \o Ellipsis


-----------------------------------------------------------------------------
(* Handlers under way.  The pool's threads are interchangeable, so the      *)
(* state keeps the bag of their frames rather than which thread runs which. *)

\* a handler starts only when a thread of the pool is free
ThreadFree == BagCardinality(th) < NThreads

AllIdle == th = EmptyBag

Frames == BagToSet(th)

\* the bag with one copy of frame f taken out
Without(f) == th (-) SetToBag({f})

\* frame f moves on to g
Becomes(f, g) == th' = Without(f) (+) SetToBag({g})

NoResponse == [op |-> "none", req |-> <<>>, status |-> 0, body |-> <<>>]

Response(op, req, status, body) ==
    [op |-> op, req |-> req, status |-> status, body |-> body]

\* a response whose handler has printed a line naming a user (line 113)
Logged(response, line) == response @@ [log |-> line]

\* a step that sends no response
Silent == last' = NoResponse

\* a handler answers at once, without ever yielding the thread
Answer(response) ==
    /\ ThreadFree
    /\ th' = th
    /\ last' = response

\* a request is taken up by a free thread, which runs it up to frame g
Start(g) ==
    /\ ThreadFree
    /\ th' = th (+) SetToBag({g})
    /\ Silent

\* the handler with frame f returns (or raises): the response goes out and
\* its thread is free again
Finish(f, response) ==
    /\ th' = Without(f)
    /\ last' = response

\* the references the dictionary maps to or a handler under way still holds
Live(pa, frames) ==
    {pa[p] : p \in DOMAIN pa} \cup
    {g.professional : g \in {x \in frames : x.pc \in
        {"redeem_check", "redeem_quota", "redeem_append", "dash_rows"}}}

\* account objects nothing refers to any more are reclaimed
Sweep(h, pa, frames) == [r \in (DOMAIN h \cap Live(pa, frames)) |-> h[r]]

\* a reference no object has
NewRef(h) == CHOOSE r \in 1..(Cardinality(DOMAIN h) + 1) : r \notin DOMAIN h

-----------------------------------------------------------------------------
(* POST /stamina *)

\* the range check with its lower bound forgotten
ScoreInRange_NoLower(score) == score <= 100

\* line 93: 0 <= data.staminaScore <= 100
ScoreInRange(score) == 0 <= score /\ score <= 100

\* lines 102-107
Reading(score, color, timestamp, userID) ==
    [staminaScore |-> score, color |-> color, timestamp |-> timestamp,
     userID |-> userID]

\* an assignment that keeps the value a key already has (dict.setdefault)
Put_KeepFirst(ud, key, value) == ud @@ (key :> value)

\* user_data[key] = value
Put(ud, key, value) == (key :> value) @@ ud

\* a handler that stores the reading before it checks the score's range
StaminaBegin_StoreFirst(userID, score) ==
    LET req == [userID |-> userID, staminaScore |-> score] IN
    IF ~is_valid_user_id(userID)
    THEN /\ Answer(Response("stamina", req, 400, "Invalid userID format"))
         /\ UNCHANGED <<stores, now, returned, posted>>
    ELSE IF ~ScoreInRange(score)
    THEN /\ user_data' = Put(user_data, userID,
                             Reading(score, get_color(score), Timestamp(now), userID))
         /\ Answer(Response("stamina", req, 400,
                            "Stamina score must be between 0-100"))
         /\ UNCHANGED <<share_codes, professional_accounts, heap, now,
                        returned, posted>>
    ELSE /\ Start([pc |-> "stamina_store", data |-> req,
                   result |-> Reading(score, get_color(score),
                                      Timestamp(now), userID)])
         /\ UNCHANGED <<stores, now, returned, posted>>

\* lines 88-107: validation, then the reading is built in a local
StaminaBegin(userID, score) ==
    /\ LET req == [userID |-> userID, staminaScore |-> score] IN
       IF ~is_valid_user_id(userID)
       THEN Answer(Response("stamina", req, 400, "Invalid userID format"))
       ELSE IF ~ScoreInRange(score)
       THEN Answer(Response("stamina", req, 400,
                            "Stamina score must be between 0-100"))
       ELSE Start([pc |-> "stamina_store", data |-> req,
                   result |-> Reading(score, get_color(score),
                                      Timestamp(now), userID)])
    /\ UNCHANGED <<stores, now, returned, posted>>

\* lines 109-115: user_data[data.userID] = result, the log line, the response
StaminaStore ==
  \E f \in Frames :
    /\ f.pc = "stamina_store"
    /\ user_data' = Put(user_data, f.data.userID, f.result)
    /\ posted' = (f.data.userID :>
                     [score |-> f.data.staminaScore, at |-> f.result.timestamp])
                  @@ posted
    /\ Finish(f, Logged(Response("stamina", f.data, 200, "success"),
                        user_display(f.data.userID)))
    /\ UNCHANGED <<share_codes, professional_accounts, heap, now, returned>>

-----------------------------------------------------------------------------
(* GET /latest *)

\* lines 118-130
Latest(userID) ==
    /\ LET req == [userID |-> userID] IN
       IF ~is_valid_user_id(userID)
       THEN Answer(Response("latest", req, 400, "Invalid userID format"))
       ELSE IF userID \notin DOMAIN user_data
       THEN Answer(Response("latest", req, 404, "No data found for user"))
       ELSE Answer(Response("latest", req, 200, user_data[userID]))
    /\ UNCHANGED <<stores, now, returned, posted>>

-----------------------------------------------------------------------------
(* POST /generate-share-code *)

\* code generation without the check that the user has data
GenBegin_Unchecked(userID) ==
    /\ Start([pc |-> "gen_scan", userID |-> userID,
               size |-> Len(share_codes), pos |-> 0])
    /\ UNCHANGED <<stores, now, returned, posted>>

\* lines 155-161: the user must have data; then the scan of share_codes.items()
\* starts, and its iterator remembers the dictionary's size
GenBegin(userID) ==
    /\ IF userID \notin DOMAIN user_data
       THEN Answer(Response("generate", [userID |-> userID], 404, "User not found"))
       ELSE Start([pc |-> "gen_scan", userID |-> userID,
                   size |-> Len(share_codes), pos |-> 0])
    /\ UNCHANGED <<stores, now, returned, posted>>

\* the scan's comparison inverted
EntryIsUsers_Inverted(entry, userID) == entry.uid # userID

\* line 162: uid == request.userID
EntryIsUsers(entry, userID) == entry.uid = userID

\* lines 161-171: one turn of `for code, uid in share_codes.items()`.  The
\* iterator raises RuntimeError (an HTTP 500) when the dictionary's size is no
\* longer the one it started with.
GenScan ==
  \E f \in Frames :
    /\ f.pc = "gen_scan"
    /\ LET req == [userID |-> f.userID] IN
       IF Len(share_codes) # f.size
       THEN /\ Finish(f, Response("generate", req, 500,
                          "dictionary changed size during iteration"))
            /\ UNCHANGED returned
       ELSE IF f.pos >= Len(share_codes)
       THEN /\ Becomes(f, [pc |-> "gen_sample", userID |-> f.userID])
            /\ Silent
            /\ UNCHANGED returned
       ELSE IF EntryIsUsers(share_codes[f.pos + 1], f.userID)
       THEN /\ Finish(f, Response("generate", req, 200,
                          [share_code |-> share_codes[f.pos + 1].code,
                           message |-> "Using existing share code"]))
            /\ returned' = returned \cup {<<f.userID, share_codes[f.pos + 1].code>>}
       ELSE /\ Becomes(f, [f EXCEPT !.pos = f.pos + 1])
            /\ Silent
            /\ UNCHANGED returned
    /\ UNCHANGED <<stores, now, posted>>

\* a generator that always yields the same code
GenSample_OneCode ==
  \E f \in Frames, code \in {1} :
    /\ f.pc = "gen_sample"
    /\ IF code \in CodeKeys(share_codes)
       THEN th' = th
       ELSE Becomes(f, [pc |-> "gen_insert", userID |-> f.userID, code |-> code])
    /\ Silent
    /\ UNCHANGED <<stores, now, returned, posted>>

\* lines 174-176: code is a fresh random sample; `while code in share_codes`
\* sends the thread round again, otherwise it goes on to register the code
GenSample ==
  \E f \in Frames, code \in Codes :
    /\ f.pc = "gen_sample"
    /\ IF code \in CodeKeys(share_codes)
       THEN th' = th
       ELSE Becomes(f, [pc |-> "gen_insert", userID |-> f.userID, code |-> code])
    /\ Silent
    /\ UNCHANGED <<stores, now, returned, posted>>

\* lines 178-184: share_codes[code] = request.userID, then the response
GenInsert ==
  \E f \in Frames :
    /\ f.pc = "gen_insert"
    /\ share_codes' = CodeAssign(share_codes, f.code, f.userID)
    /\ returned' = returned \cup {<<f.userID, f.code>>}
    /\ Finish(f, Response("generate", [userID |-> f.userID], 200,
                  [share_code |-> f.code,
                   message |-> "Share code generated successfully"]))
    /\ UNCHANGED <<user_data, professional_accounts, heap, now, posted>>

-----------------------------------------------------------------------------
(* POST /redeem-share-code *)

\* lines 198-202: a new account object
NewAccount == [clients |-> <<>>, subscription_tier |-> "starter",
               max_clients |-> MAX_CLIENTS]

\* the limit check off by one
LimitReached_OffByOne(account) == Len(account.clients) > account.max_clients

\* line 215: len(professional["clients"]) >= professional["max_clients"]
LimitReached(account) == Len(account.clients) >= account.max_clients

RedeemReq(f) == [shareCode |-> f.shareCode, professionalID |-> f.professionalID]

\* the frame once `professional` is bound (line 204)
WithAccount(f, ref) ==
    [pc |-> "redeem_check", shareCode |-> f.shareCode,
     professionalID |-> f.professionalID, client_user_id |-> f.client_user_id,
     professional |-> ref]

\* redemption that sets up the professional's account before it validates
\* the code
RedeemBegin_AccountFirst(shareCode, professionalID) ==
    /\ LET pa == IF professionalID \in DOMAIN professional_accounts
                 THEN professional_accounts
                 ELSE (professionalID :> NewRef(heap)) @@ professional_accounts
           hp == IF professionalID \in DOMAIN professional_accounts
                 THEN heap
                 ELSE (NewRef(heap) :> NewAccount) @@ heap IN
       /\ professional_accounts' = pa
       /\ heap' = hp
       /\ IF shareCode \notin CodeKeys(share_codes)
          THEN Answer(Response("redeem",
                        [shareCode |-> shareCode, professionalID |-> professionalID],
                        404, "Invalid share code"))
          ELSE Start([pc |-> "redeem_check", shareCode |-> shareCode,
                      professionalID |-> professionalID,
                      client_user_id |-> CodeLookup(share_codes, shareCode),
                      professional |-> pa[professionalID]])
    /\ UNCHANGED <<user_data, share_codes, now, returned, posted>>

\* lines 191-194: the code must be a key of share_codes; its user is read
RedeemBegin(shareCode, professionalID) ==
    /\ IF shareCode \notin CodeKeys(share_codes)
       THEN Answer(Response("redeem",
                     [shareCode |-> shareCode, professionalID |-> professionalID],
                     404, "Invalid share code"))
       ELSE Start([pc |-> "redeem_account", shareCode |-> shareCode,
                   professionalID |-> professionalID,
                   client_user_id |-> CodeLookup(share_codes, shareCode)])
    /\ UNCHANGED <<stores, now, returned, posted>>

\* lines 197 and 204: is the professional known?  If so its account object is
\* fetched; if not the thread goes on to create one.
RedeemAccount ==
  \E f \in Frames :
    /\ f.pc = "redeem_account"
    /\ IF f.professionalID \notin DOMAIN professional_accounts
       THEN Becomes(f, [f EXCEPT !.pc = "redeem_create"])
       ELSE Becomes(f, WithAccount(f, professional_accounts[f.professionalID]))
    /\ Silent
    /\ UNCHANGED <<stores, now, returned, posted>>

\* lines 198-202: professional_accounts[professionalID] = {...}; an object
\* stored there before is no longer the professional's account
RedeemCreate ==
  \E f \in Frames :
    /\ f.pc = "redeem_create"
    /\ LET ref == NewRef(heap)
           pa == Put(professional_accounts, f.professionalID, ref) IN
       /\ professional_accounts' = pa
       /\ Becomes(f, [f EXCEPT !.pc = "redeem_get"])
       /\ heap' = Sweep(Put(heap, ref, NewAccount), pa, BagToSet(th'))
    /\ Silent
    /\ UNCHANGED <<user_data, share_codes, now, returned, posted>>

\* line 204: professional = professional_accounts[request.professionalID]
RedeemGet ==
  \E f \in Frames :
    /\ f.pc = "redeem_get"
    /\ Becomes(f, WithAccount(f, professional_accounts[f.professionalID]))
    /\ Silent
    /\ UNCHANGED <<stores, now, returned, posted>>

\* the limit checked before the list is searched for the client
RedeemCheck_LimitFirst ==
  \E f \in Frames :
    /\ f.pc = "redeem_check"
    /\ LET account == heap[f.professional] IN
       IF Len(account.clients) >= account.max_clients
       THEN /\ Finish(f, Response("redeem", RedeemReq(f), 403,
                          [limit |-> account.max_clients]))
            /\ heap' = Sweep(heap, professional_accounts, BagToSet(th'))
       ELSE IF InList(f.client_user_id, account.clients)
       THEN /\ Finish(f, Response("redeem", RedeemReq(f), 200,
                          [status |-> "already_added",
                           client_count |-> Len(account.clients)]))
            /\ heap' = Sweep(heap, professional_accounts, BagToSet(th'))
       ELSE /\ Becomes(f, [f EXCEPT !.pc = "redeem_quota"])
            /\ Silent
            /\ UNCHANGED heap
    /\ UNCHANGED <<user_data, share_codes, professional_accounts, now, returned, posted>>

\* lines 207-212: a client already in the list is reported, not added again
RedeemCheck ==
  \E f \in Frames :
    /\ f.pc = "redeem_check"
    /\ LET account == heap[f.professional] IN
       IF InList(f.client_user_id, account.clients)
       THEN /\ Finish(f, Response("redeem", RedeemReq(f), 200,
                          [status |-> "already_added",
                           client_count |-> Len(account.clients)]))
            /\ heap' = Sweep(heap, professional_accounts, BagToSet(th'))
       ELSE /\ Becomes(f, [f EXCEPT !.pc = "redeem_quota"])
            /\ Silent
            /\ UNCHANGED heap
    /\ UNCHANGED <<user_data, share_codes, professional_accounts, now, returned, posted>>

\* lines 215-216: the subscription limit
RedeemQuota ==
  \E f \in Frames :
    /\ f.pc = "redeem_quota"
    /\ LET account == heap[f.professional] IN
       IF LimitReached(account)
       THEN /\ Finish(f, Response("redeem", RedeemReq(f), 403,
                          [limit |-> account.max_clients]))
            /\ heap' = Sweep(heap, professional_accounts, BagToSet(th'))
       ELSE /\ Becomes(f, [f EXCEPT !.pc = "redeem_append"])
            /\ Silent
            /\ UNCHANGED heap
    /\ UNCHANGED <<user_data, share_codes, professional_accounts, now, returned, posted>>

\* a redemption that uses the code up: the entry is deleted on success
RedeemAppend_ConsumesCode ==
  \E f \in Frames :
    /\ f.pc = "redeem_append"
    /\ LET account == heap[f.professional]
           clients == Append(account.clients, f.client_user_id) IN
       /\ Finish(f, Response("redeem", RedeemReq(f), 200,
                     [status |-> "success", client_count |-> Len(clients),
                      max_clients |-> account.max_clients]))
       /\ heap' = Sweep([heap EXCEPT ![f.professional].clients = clients],
                        professional_accounts, BagToSet(th'))
    /\ share_codes' = SelectSeq(share_codes, LAMBDA e : e.code # f.shareCode)
    /\ UNCHANGED <<user_data, professional_accounts, now, returned, posted>>

\* lines 219-226: professional["clients"].append(client_user_id), then the response
RedeemAppend ==
  \E f \in Frames :
    /\ f.pc = "redeem_append"
    /\ LET account == heap[f.professional]
           clients == Append(account.clients, f.client_user_id) IN
       /\ Finish(f, Response("redeem", RedeemReq(f), 200,
                     [status |-> "success", client_count |-> Len(clients),
                      max_clients |-> account.max_clients]))
       /\ heap' = Sweep([heap EXCEPT ![f.professional].clients = clients],
                        professional_accounts, BagToSet(th'))
    /\ UNCHANGED <<user_data, share_codes, professional_accounts, now, returned, posted>>

-----------------------------------------------------------------------------
(* GET /professional/dashboard/{professional_id} *)

\* lines 260-266: the check in the try block always returns False
is_data_stale(timestamp_str) == FALSE

\* lines 244-251: the row of a client that has a reading
Row(client_id) ==
    LET data == user_data[client_id] IN
    [user_display |-> user_display(client_id),
     stamina_score |-> data.staminaScore,
     color |-> data.color,
     last_seen |-> data.timestamp,
     status |-> IF ~is_data_stale(data.timestamp)
                THEN "connected" ELSE "disconnected"]

\* a dashboard that creates the account it does not find, as redemption does
DashBegin_CreatesAccount(professional_id) ==
    LET req == [professional_id |-> professional_id] IN
    IF professional_id \notin DOMAIN professional_accounts
    THEN LET ref == NewRef(heap) IN
         /\ professional_accounts' = Put(professional_accounts, professional_id, ref)
         /\ heap' = Put(heap, ref, NewAccount)
         /\ Answer(Response("dashboard", req, 200,
                            [clients |-> <<>>, subscription_tier |-> "starter",
                             client_count |-> 0]))
         /\ UNCHANGED <<user_data, share_codes, now, returned, posted>>
    ELSE /\ Start([pc |-> "dash_rows", professional_id |-> professional_id,
                   professional |-> professional_accounts[professional_id],
                   pos |-> 0, client_data |-> <<>>])
         /\ UNCHANGED <<stores, now, returned, posted>>

\* lines 232-240: no account, or the account object and an empty client_data
DashBegin(professional_id) ==
    LET req == [professional_id |-> professional_id] IN
    /\ IF professional_id \notin DOMAIN professional_accounts
       THEN Answer(Response("dashboard", req, 200,
                            [clients |-> <<>>, subscription_tier |-> "none",
                             client_count |-> 0]))
       ELSE Start([pc |-> "dash_rows", professional_id |-> professional_id,
                   professional |-> professional_accounts[professional_id],
                   pos |-> 0, client_data |-> <<>>])
    /\ UNCHANGED <<stores, now, returned, posted>>

\* line 243: client_id in user_data
HasReading(client_id) == client_id \in DOMAIN user_data

\* lines 242-258: one turn of the loop over professional["clients"], or, when
\* the list's iterator is exhausted, the response
DashRow ==
  \E f \in Frames :
    /\ f.pc = "dash_rows"
    /\ LET professional == heap[f.professional] IN
       IF f.pos < Len(professional.clients)
       THEN LET client_id == professional.clients[f.pos + 1] IN
            /\ Becomes(f, [f EXCEPT !.pos = @ + 1,
                                    !.client_data = IF HasReading(client_id)
                                                    THEN Append(@, Row(client_id))
                                                    ELSE @])
            /\ Silent
            /\ heap' = heap
       ELSE /\ Finish(f, Response("dashboard",
                                  [professional_id |-> f.professional_id], 200,
                                  [clients |-> f.client_data,
                                   subscription_tier |-> professional.subscription_tier,
                                   client_count |-> Len(f.client_data),
                                   max_clients |-> professional.max_clients]))
            /\ heap' = Sweep(heap, professional_accounts, BagToSet(th'))
    /\ UNCHANGED <<user_data, share_codes, professional_accounts, now,
                   returned, posted>>

-----------------------------------------------------------------------------
(* The debug endpoints.  Each builds its list in one comprehension over a   *)
(* dictionary; they are modelled for requests that run one at a time, where *)
(* no other handler runs during the comprehension.                          *)

\* lines 133-138: user_ids is kept as a bag, the list without its order
debug_users ==
    /\ LET shown == {DebugDisplay(uid) : uid \in DOMAIN user_data} IN
       Answer(Response("debug_users", <<>>, 200,
                [user_count |-> Cardinality(DOMAIN user_data),
                 user_ids |-> [d \in shown |->
                     Cardinality({uid \in DOMAIN user_data : DebugDisplay(uid) = d})]]))
    /\ UNCHANGED <<stores, now, returned, posted>>

\* lines 269-275
debug_share_codes ==
    /\ Answer(Response("debug_share_codes", <<>>, 200,
                [total_codes |-> Len(share_codes),
                 codes |-> [i \in 1..Len(share_codes) |->
                              [code |-> share_codes[i].code,
                               user |-> DebugDisplay(share_codes[i].uid)]],
                 professionals |-> Cardinality(DOMAIN professional_accounts)]))
    /\ UNCHANGED <<stores, now, returned, posted>>

-----------------------------------------------------------------------------
(* The clock *)

Tick ==
    /\ now' = (now + 1) % NClock
    /\ Silent
    /\ UNCHANGED <<stores, th, returned, posted>>

-----------------------------------------------------------------------------
(* Requests the clients send *)

\* "abc_01": six characters of the class
U1 == <<"a", "b", "c", "_", "0", "1">>
\* "Zed-9.x1y": nine characters of the class
U2 == <<"Z", "e", "d", "-", "9", ".", "x", "1", "y">>
\* "ab1": too short
UShort == <<"a", "b", "1">>
\* "abc 01!": a space and an exclamation mark
UBadChar == <<"a", "b", "c", " ", "0", "1", "!">>

Users == {U1, U2}
UserIDs == Users \cup {UShort, UBadChar}

\* a score every band of which is immaterial to sharing
AScore == 50
ScoreInputs == {-1, 0, 100, 101}

Professionals == {"pro1", "pro2"}

CodeInputs == Codes \cup {BadCode}

\* the state after construction (lines 19, 20, 32)
Init ==
    /\ user_data = [u \in {} |-> 0]
    /\ share_codes = <<>>
    /\ professional_accounts = [p \in {} |-> 0]
    /\ heap = [r \in {} |-> 0]
    /\ th = EmptyBag
    /\ now = 0
    /\ last = NoResponse
    /\ returned = {}
    /\ posted = [u \in {} |-> 0]

-----------------------------------------------------------------------------
(* The user store: POST /stamina and GET /latest on the thread pool *)

StoreBegin ==
    \/ \E u \in UserIDs, s \in ScoreInputs : StaminaBegin(u, s)
    \/ \E u \in UserIDs : Latest(u)

NextStore ==
    \/ StoreBegin
    \/ StaminaStore
    \/ Tick

SpecStore == Init /\ [][NextStore]_vars

\* one request at a time: a handler runs to its response before the next starts
NextStoreSeq ==
    \/ \E u \in UserIDs, s \in ScoreInputs : AllIdle /\ StaminaBegin(u, s)
    \/ \E u \in UserIDs : AllIdle /\ Latest(u)
    \/ StaminaStore
    \/ Tick

SpecStoreSeq == Init /\ [][NextStoreSeq]_vars

-----------------------------------------------------------------------------
(* Code generation: users report data and ask for share codes, on the pool *)

ShareBegin ==
    \/ \E u \in Users : StaminaBegin(u, AScore)
    \/ \E u \in Users : GenBegin(u)

ShareStep ==
    \/ StaminaStore
    \/ GenScan
    \/ GenSample
    \/ GenInsert

NextShare ==
    \/ ShareBegin
    \/ ShareStep

SpecShare == Init /\ [][NextShare]_vars

-----------------------------------------------------------------------------
(* The whole service, one request at a time *)

RedeemStep ==
    \/ RedeemAccount
    \/ RedeemCreate
    \/ RedeemGet
    \/ RedeemCheck
    \/ RedeemQuota
    \/ RedeemAppend

\* the lowest and the highest score the service accepts
SeqScores == {0, 100}

NextSeq ==
    \/ \E u \in Users, s \in SeqScores : AllIdle /\ StaminaBegin(u, s)
    \/ \E u \in Users : AllIdle /\ Latest(u)
    \/ \E u \in Users : AllIdle /\ GenBegin(u)
    \/ \E c \in CodeInputs : AllIdle /\ RedeemBegin(c, "pro1")
    \/ AllIdle /\ DashBegin("pro1")
    \/ AllIdle /\ debug_users
    \/ AllIdle /\ debug_share_codes
    \/ ShareStep
    \/ RedeemStep
    \/ DashRow
    \/ Tick

SpecSeq == Init /\ [][NextSeq]_vars

-----------------------------------------------------------------------------
(* The color bands: get_color applied to every pair of scores in range *)

ColorScores == 0..100

\* a pair of scores is drawn
InitColor ==
    /\ user_data = <<>>
    /\ share_codes = <<>>
    /\ professional_accounts = <<>>
    /\ heap = <<>>
    /\ th = EmptyBag
    /\ now = 0
    /\ last \in {Response("get_color_call", <<a, b>>, 0, <<>>) : a, b \in ColorScores}
    /\ returned = {}
    /\ posted = <<>>

\* get_color is applied to both
ApplyColor ==
    /\ last.op = "get_color_call"
    /\ last' = Response("get_color", last.req, 0,
                        <<get_color(last.req[1]), get_color(last.req[2])>>)
    /\ UNCHANGED <<stores, th, now, returned, posted>>

SpecColor == InitColor /\ [][ApplyColor]_vars

-----------------------------------------------------------------------------
(* The resample loop.  One user more than the code space has codes, requests *)
(* one at a time.  A handler that can take a step eventually takes it, the   *)
(* clock keeps running, and the sampling is fair: a loop that could draw a   *)
(* free code again and again eventually draws one.                           *)

\* "user.003"
U3 == <<"u", "s", "e", "r", ".", "0", "0", "3">>

LoopUsers == {U1, U2, U3}

NextLoop ==
    \/ \E u \in LoopUsers : AllIdle /\ StaminaBegin(u, AScore)
    \/ \E u \in LoopUsers : AllIdle /\ GenBegin(u)
    \/ StaminaStore
    \/ GenScan
    \/ GenSample
    \/ GenInsert
    \/ Tick

SpecLoop ==
    /\ Init
    /\ [][NextLoop]_vars
    /\ WF_vars(Tick)
    /\ WF_vars(GenScan)
    /\ SF_vars(GenSample)
    /\ WF_vars(GenInsert)

-----------------------------------------------------------------------------
(* The format of userIDs: POST /stamina and GET /latest, one request at a  *)
(* time, with identifiers on both sides of the validation                   *)

\* "abc_01" and a newline
UNewline == <<"a", "b", "c", "_", "0", "1", "\n">>
\* "abcde" and a newline
UFiveNewline == <<"a", "b", "c", "d", "e", "\n">>
\* a newline inside: "abc", newline, "01x"
UMidNewline == <<"a", "b", "c", "\n", "0", "1", "x">>

FormatIDs == {U1, UShort, UBadChar, UNewline, UFiveNewline, UMidNewline}

NextFormat ==
    \/ \E u \in FormatIDs, s \in SeqScores : AllIdle /\ StaminaBegin(u, s)
    \/ \E u \in FormatIDs : AllIdle /\ Latest(u)
    \/ StaminaStore
    \/ Tick

SpecFormat == Init /\ [][NextFormat]_vars

-----------------------------------------------------------------------------
(* A roster near its limit.  The state after MAX_CLIENTS + 1 users have each *)
(* posted a score and generated a code, one after the other, and "pro1" has *)
(* redeemed the first MAX_CLIENTS - 1 codes in turn.                        *)

DigitChar == <<"0", "1", "2", "3", "4", "5", "6", "7", "8", "9">>

\* "client01", "client02", ...
QUser(i) == <<"c", "l", "i", "e", "n", "t",
              DigitChar[(i \div 10) + 1], DigitChar[(i % 10) + 1]>>

QUsers == {QUser(i) : i \in 1..(MAX_CLIENTS + 1)}

InitQuota ==
    /\ user_data = [u \in QUsers |-> Reading(AScore, get_color(AScore), Timestamp(0), u)]
    /\ share_codes = [i \in 1..(MAX_CLIENTS + 1) |-> [code |-> i, uid |-> QUser(i)]]
    /\ professional_accounts = [p \in {"pro1"} |-> 1]
    /\ heap = [r \in {1} |->
                 [NewAccount EXCEPT !.clients = [i \in 1..(MAX_CLIENTS - 1) |-> QUser(i)]]]
    /\ th = EmptyBag
    /\ now = 0
    /\ last = NoResponse
    /\ returned = {<<QUser(i), i>> : i \in 1..(MAX_CLIENTS + 1)}
    /\ posted = [u \in QUsers |-> [score |-> AScore, at |-> Timestamp(0)]]

\* a code whose user "pro1" already has, the codes of the two users it has
\* not, and a string that is no code
QCodeInputs == {1, MAX_CLIENTS, MAX_CLIENTS + 1, BadCode}

\* under concurrency the professional without account redeems two of the codes
QuotaBegin ==
    \/ \E c \in QCodeInputs : RedeemBegin(c, "pro1")
    \/ \E c \in {1, MAX_CLIENTS} : RedeemBegin(c, "pro2")

NextQuota ==
    \/ QuotaBegin
    \/ DashBegin("pro1")
    \/ RedeemStep
    \/ DashRow

SpecQuota == InitQuota /\ [][NextQuota]_vars

NextQuotaSeq ==
    \/ \E c \in QCodeInputs, p \in Professionals : AllIdle /\ RedeemBegin(c, p)
    \/ \E p \in Professionals : AllIdle /\ DashBegin(p)
    \/ RedeemStep
    \/ DashRow

SpecQuotaSeq == InitQuota /\ [][NextQuotaSeq]_vars

-----------------------------------------------------------------------------
(* Properties of code generation under concurrent requests *)

\* the codes that map to user u
CodesOf(u) == {share_codes[i].code : i \in {j \in 1..Len(share_codes) : share_codes[j].uid = u}}

\* the codes generate-share-code responses have carried for user u
ReturnedFor(u) == {p[2] : p \in {q \in returned : q[1] = u}}

\* C1: concurrent generate-share-code requests for one user do not mint
\* distinct codes: at most one key of share_codes maps to the user, and every
\* response for the user carries the same code.
C1_OneCodePerUser ==
    \A u \in Users : Cardinality(CodesOf(u)) <= 1 /\ Cardinality(ReturnedFor(u)) <= 1

\* C2: a code returned to a request for user u is a key of share_codes that
\* maps to u, then and ever after; so no request for another user returns it.
C2_ReturnedCodeIsUsers ==
    \A p \in returned :
        p[2] \in CodeKeys(share_codes) /\ CodeLookup(share_codes, p[2]) = p[1]

-----------------------------------------------------------------------------
(* Properties of the roster *)

\* the account of professional p
AccountOf(p) == heap[professional_accounts[p]]

\* C3: no professional account holds more clients than its max_clients, also
\* when redemptions for one professional run concurrently.
C3_ClientsWithinLimit ==
    \A p \in DOMAIN professional_accounts :
        Len(AccountOf(p).clients) <= AccountOf(p).max_clients

-----------------------------------------------------------------------------
(* Properties of the service when requests run one at a time *)

\* C4: once a generate-share-code response has carried code c for user u,
\* every later response for u carries c again and the request adds nothing to
\* share_codes, whatever other requests came in between.
C4_GenerateIdempotent ==
    [][\A u \in Users, c \in Codes :
         (<<u, c>> \in returned /\ last'.op = "generate" /\ last'.req.userID = u)
         => /\ last'.status = 200
            /\ last'.body.share_code = c
            /\ share_codes' = share_codes]_vars

\* a second request for a user's code is answered with the first code, after
\* the other user got a code and the professional took a client
C4_Witness ==
    /\ last.op = "generate"
    /\ last.status = 200
    /\ last.body.message = "Using existing share code"
    /\ Len(share_codes) = 2
    /\ "pro1" \in DOMAIN professional_accounts
    /\ Len(AccountOf("pro1").clients) >= 1

\* the positions of a redeem-share-code handler
RedeemPcs == {"redeem_account", "redeem_create", "redeem_get", "redeem_check",
              "redeem_quota", "redeem_append"}

\* a redemption under way for a professional who has an account
RedeemingKnown(f) ==
    f.pc \in RedeemPcs /\ f.professionalID \in DOMAIN professional_accounts

\* a step that takes up a new request changes no store
StartChangesNothing == BagCardinality(th') > BagCardinality(th) => stores' = stores

\* C5: a redemption of a valid code for a user the professional does not have
\* is refused with 403 when the list holds 10 clients, and changes no store;
\* with fewer than 10 it succeeds and appends the user.  A 403 is sent only
\* when the list holds exactly 10.
C5_LimitEnforced ==
    [][/\ StartChangesNothing
       /\ \A f \in Frames :
            (RedeemingKnown(f) /\
             ~InList(f.client_user_id, AccountOf(f.professionalID).clients))
            => LET clients == AccountOf(f.professionalID).clients IN
               /\ Len(clients) >= 10
                    => /\ stores' = stores
                       /\ last' = NoResponse \/ last'.status = 403
               /\ (Len(clients) < 10 /\ last' # NoResponse)
                    => /\ last'.status = 200
                       /\ last'.body.status = "success"
                       /\ AccountOf(f.professionalID)'.clients =
                              Append(clients, f.client_user_id)
       /\ (last'.op = "redeem" /\ last'.status = 403)
            => Len(AccountOf(last'.req.professionalID).clients) = 10]_vars

\* the eleventh distinct client has just been refused
C5_Witness ==
    /\ last.op = "redeem"
    /\ last.status = 403
    /\ last.req.shareCode = MAX_CLIENTS + 1
    /\ Len(AccountOf(last.req.professionalID).clients) = 10
    /\ ~InList(QUser(MAX_CLIENTS + 1), AccountOf(last.req.professionalID).clients)

\* C6: a redemption with a string that is no key of share_codes is answered
\* 404 and changes no store; in particular it creates no account.
C6_UnknownCodeRejected ==
    [][(last'.op = "redeem" /\ last'.req.shareCode \notin CodeKeys(share_codes))
       => (last'.status = 404 /\ stores' = stores)]_vars

\* an unknown code has just been refused for a professional without account,
\* while other codes exist
C6_Witness ==
    /\ last.op = "redeem"
    /\ last.status = 404
    /\ last.req.professionalID \notin DOMAIN professional_accounts
    /\ share_codes # <<>>

\* C7: a redemption for a user the professional already has is answered
\* "already_added" with the length of the list and changes no store, also
\* when the list is full.
C7_AlreadyAdded ==
    [][/\ StartChangesNothing
       /\ \A f \in Frames :
            (RedeemingKnown(f) /\
             InList(f.client_user_id, AccountOf(f.professionalID).clients))
            => /\ stores' = stores
               /\ \/ last' = NoResponse
                  \/ /\ last'.status = 200
                     /\ last'.body.status = "already_added"
                     /\ last'.body.client_count =
                            Len(AccountOf(f.professionalID).clients)]_vars

\* a repeated redemption has just been answered "already_added" by a full list
C7_Witness ==
    /\ last.op = "redeem"
    /\ last.status = 200
    /\ last.body.status = "already_added"
    /\ last.body.client_count = 10
    /\ last.req.shareCode = MAX_CLIENTS

\* C9: GET /latest for a well-formed userID answers with the reading of the
\* last POST /stamina that stored for that user, and with 404 exactly when
\* there was none.
C9_LatestIsLastPost ==
    (last.op = "latest" /\ is_valid_user_id(last.req.userID))
    => IF last.req.userID \in DOMAIN posted
       THEN /\ last.status = 200
            /\ last.body = Reading(posted[last.req.userID].score,
                                   get_color(posted[last.req.userID].score),
                                   posted[last.req.userID].at,
                                   last.req.userID)
       ELSE last.status = 404

\* a user's latest reading is served while the other user holds a different
\* one and share codes and a roster exist
C9_Witness ==
    /\ last.op = "latest"
    /\ last.status = 200
    /\ last.body.staminaScore = 100
    /\ last.body.timestamp = 1
    /\ \E u \in DOMAIN user_data :
         u # last.req.userID /\ user_data[u].staminaScore = 0
    /\ share_codes # <<>>
    /\ DOMAIN professional_accounts # {}

-----------------------------------------------------------------------------
(* Properties under concurrent requests *)

\* C8: a generate-share-code request for a user without a reading is answered
\* 404 and leaves share_codes alone; and every user share_codes maps to has a
\* reading in user_data.
C8_UserMustHaveData ==
    /\ [](\A i \in 1..Len(share_codes) : share_codes[i].uid \in DOMAIN user_data)
    /\ [][(last'.op = "generate" /\ last'.req.userID \notin DOMAIN user_data)
          => (last'.status = 404 /\ share_codes' = share_codes)]_vars

\* a user without a reading has just been refused, while a code exists
C8_Witness ==
    /\ last.op = "generate"
    /\ last.status = 404
    /\ last.req.userID \notin DOMAIN user_data
    /\ share_codes # <<>>

\* a reading that is in range, coloured by its score, and filed under its user
Consistent(u, r) ==
    /\ r.staminaScore \in 0..100
    /\ r.color = get_color(r.staminaScore)
    /\ r.userID = u

\* C10: every reading in user_data, and every reading GET /latest returns, is
\* in range, coloured by its own score and filed under its own user.
C10_ReadingsConsistent ==
    /\ \A u \in DOMAIN user_data : Consistent(u, user_data[u])
    /\ (last.op = "latest" /\ last.status = 200)
         => Consistent(last.req.userID, last.body)

\* GET /latest has just answered for a user while a POST /stamina for the
\* same user, with another score, is about to store
C10_Witness ==
    /\ last.op = "latest"
    /\ last.status = 200
    /\ \E f \in Frames :
         /\ f.pc = "stamina_store"
         /\ f.data.userID = last.req.userID
         /\ f.result.staminaScore # last.body.staminaScore

-----------------------------------------------------------------------------
(* Validation in POST /stamina *)

\* C11: a POST /stamina whose userID fails the format validation is answered
\* 400 "Invalid userID format", one whose userID is valid and whose score is
\* outside 0..100 is answered 400 "Stamina score must be between 0-100"; in
\* both cases no store changes, and GET /latest of a user with a reading
\* answers that stored reading.
C11_ValidationFirst ==
    [][/\ (last'.op = "stamina" /\ ~is_valid_user_id(last'.req.userID))
          => (/\ last'.status = 400
              /\ last'.body = "Invalid userID format"
              /\ stores' = stores)
       /\ (/\ last'.op = "stamina"
           /\ is_valid_user_id(last'.req.userID)
           /\ last'.req.staminaScore \notin 0..100)
          => (/\ last'.status = 400
              /\ last'.body = "Stamina score must be between 0-100"
              /\ stores' = stores)
       /\ (last'.op = "latest" /\ last'.req.userID \in DOMAIN user_data)
          => (last'.status = 200 /\ last'.body = user_data[last'.req.userID])
      ]_vars

\* a score out of range is refused for a user whose reading is stored
C11_Witness ==
    /\ last.op = "stamina"
    /\ last.status = 400
    /\ last.body = "Stamina score must be between 0-100"
    /\ last.req.userID \in DOMAIN user_data

-----------------------------------------------------------------------------
(* What logs and debug output show of a userID *)

\* d is a strict prefix of uid of at most 8 characters, then an ellipsis
IsTruncation(d, uid) ==
    \E k \in 0..8 : k < Len(uid) /\ d = SubSeq(uid, 1, k) \o Ellipsis

\* the log line of an accepted POST /stamina
LogTruncated ==
    (last.op = "stamina" /\ last.status = 200)
        => IsTruncation(last.log, last.req.userID)

\* the list of GET /debug/users
DebugUsersTruncated ==
    last.op = "debug_users"
        => \A uid \in DOMAIN user_data :
              \E d \in DOMAIN last.body.user_ids : IsTruncation(d, uid)

\* the list of GET /debug/share-codes
DebugCodesTruncated ==
    last.op = "debug_share_codes"
        => \A i \in 1..Len(last.body.codes) :
              IsTruncation(last.body.codes[i].user, share_codes[i].uid)

\* the rows of the dashboard
DashboardTruncated ==
    (last.op = "dashboard" /\ last.req.professional_id \in DOMAIN professional_accounts)
        => \A i \in 1..Len(last.body.clients) :
              \E j \in 1..Len(AccountOf(last.req.professional_id).clients) :
                 IsTruncation(last.body.clients[i].user_display,
                              AccountOf(last.req.professional_id).clients[j])

\* C12: for every accepted userID the string that the POST /stamina log
\* line, GET /debug/users, GET /debug/share-codes and the dashboard's
\* user_display emit for it is a strict prefix of at most 8 characters
\* followed by an ellipsis, never the complete identifier.
C12_NoFullIdentifier ==
    /\ LogTruncated
    /\ DebugUsersTruncated
    /\ DebugCodesTruncated
    /\ DashboardTruncated

-----------------------------------------------------------------------------
(* The dashboard of a professional without account *)

\* C13: a dashboard request for a professionalID that has no account is
\* answered 200 with an empty client list, tier "none" and count 0, and
\* changes no store (it creates no account); no account ever has tier
\* "none", and no dashboard of a professional with account reports it.
C13_NoAccountDashboard ==
    [][/\ (/\ last'.op = "dashboard"
           /\ last'.req.professional_id \notin DOMAIN professional_accounts)
          => (/\ last'.status = 200
              /\ last'.body = [clients |-> <<>>, subscription_tier |-> "none",
                               client_count |-> 0]
              /\ stores' = stores)
       /\ \A p \in DOMAIN professional_accounts' :
              heap'[professional_accounts'[p]].subscription_tier # "none"
       /\ (/\ last'.op = "dashboard"
           /\ last'.req.professional_id \in DOMAIN professional_accounts)
          => last'.body.subscription_tier # "none"
      ]_vars

\* the dashboard of a professional without account, asked for when users
\* have readings and codes
C13_Witness ==
    /\ last.op = "dashboard"
    /\ last.body.subscription_tier = "none"
    /\ last.req.professional_id \notin DOMAIN professional_accounts
    /\ Len(share_codes) > 0

-----------------------------------------------------------------------------
(* The color bands *)

\* the bands as the table of inclusive ranges
BandOf(score) ==
    CASE score \in 91..100 -> "blue"
      [] score \in 86..90  -> "green"
      [] score \in 76..85  -> "green-yellow"
      [] score \in 51..75  -> "yellow"
      [] score \in 40..50  -> "yellow-orange"
      [] score \in 30..39  -> "orange"
      [] score \in 0..29   -> "red"

\* red < orange < yellow-orange < yellow < green-yellow < green < blue
BandRank(color) ==
    CASE color = "red"           -> 0
      [] color = "orange"        -> 1
      [] color = "yellow-orange" -> 2
      [] color = "yellow"        -> 3
      [] color = "green-yellow"  -> 4
      [] color = "green"         -> 5
      [] color = "blue"          -> 6

\* C14: for every integer score in 0..100 get_color(score) is the band of
\* the reference table, and the band's rank never decreases as the score
\* increases.
C14_ColorBands ==
    last.op = "get_color"
        => (/\ last.body[1] = BandOf(last.req[1])
            /\ last.body[2] = BandOf(last.req[2])
            /\ last.req[1] <= last.req[2]
                  => BandRank(last.body[1]) <= BandRank(last.body[2]))

\* the two sides of the highest threshold
C14_Witness ==
    /\ last.op = "get_color"
    /\ last.req = <<90, 91>>
    /\ last.body = <<"green", "blue">>

-----------------------------------------------------------------------------
(* Redemption leaves the codes in place *)

\* a step of a redeem-share-code handler
RedeemStepTaken ==
    (\E f \in Frames : f.pc \in RedeemPcs) \/ last'.op = "redeem"

\* C15: no step of a redemption, whatever its outcome, changes share_codes
\* or user_data; a successful one appends the code's user to the list of the
\* redeeming professional; and a valid code is redeemed successfully by every
\* professional whose own list lacks the user and is below its limit, whoever
\* else has redeemed the code before.
C15_RedeemNonDestructive ==
    [][/\ RedeemStepTaken
          => (share_codes' = share_codes /\ user_data' = user_data)
       /\ (last'.op = "redeem" /\ last'.req.shareCode \in CodeKeys(share_codes))
          => LET user == CodeLookup(share_codes, last'.req.shareCode)
                 clients == AccountOf(last'.req.professionalID).clients IN
             /\ (~InList(user, clients) /\ Len(clients) < 10)
                  => (last'.status = 200 /\ last'.body.status = "success")
             /\ (last'.status = 200 /\ last'.body.status = "success")
                  => heap'[professional_accounts'[last'.req.professionalID]].clients
                         = Append(clients, user)
      ]_vars

\* a code that one professional has redeemed has just been redeemed by another
C15_Witness ==
    /\ last.op = "redeem"
    /\ last.status = 200
    /\ last.body.status = "success"
    /\ last.req.professionalID = "pro2"
    /\ last.req.shareCode = 1
    /\ InList(QUser(1), AccountOf("pro1").clients)
    /\ InList(QUser(1), AccountOf("pro2").clients)
    /\ CodeLookup(share_codes, 1) = QUser(1)

-----------------------------------------------------------------------------
(* Rosters under concurrent redemptions *)

\* C16: in every reachable state, concurrent redemptions for one
\* professional included, no clients list holds the same userID twice.
C16_NoDuplicateClients ==
    \A p \in DOMAIN professional_accounts :
        LET clients == AccountOf(p).clients IN
        \A i, j \in 1..Len(clients) : clients[i] = clients[j] => i = j

-----------------------------------------------------------------------------
(* Termination of the resample loop *)

\* a request of user u is in the loop of lines 175-176
InLoop(u) == \E f \in Frames : f.pc = "gen_sample" /\ f.userID = u

\* the response that carries a newly registered code of user u
Registered(u) ==
    /\ last.op = "generate"
    /\ last.req.userID = u
    /\ last.status = 200
    /\ last.body.message = "Share code generated successfully"
    /\ CodeLookup(share_codes, last.body.share_code) = u

\* every code of the code space is a key of share_codes
AllIssued == CodeKeys(share_codes) = Codes

\* the code a request leaves the loop with is no key when it is chosen
ChosenCodeIsFresh ==
    [][\A g \in BagToSet(th') :
          (g.pc = "gen_insert" /\ g \notin Frames)
              => g.code \notin CodeKeys(share_codes)]_vars

\* C17 as stated: under fair sampling a request in the resample loop
\* eventually registers and returns a code that was no key when chosen, in
\* every reachable registry, the one with every code issued included.
C17_LoopTerminates ==
    /\ ChosenCodeIsFresh
    /\ \A u \in LoopUsers : InLoop(u) ~> Registered(u)

\* C17, amended: under fair sampling a request in the resample loop
\* eventually registers and returns a code that was no key when chosen,
\* unless every code of the code space has been issued.
C17_LoopTerminatesWhileCodesRemain ==
    /\ ChosenCodeIsFresh
    /\ \A u \in LoopUsers : InLoop(u) ~> (Registered(u) \/ AllIssued)

\* a request has left the loop with the one code that was still free
C17_Witness ==
    /\ Registered(U2)
    /\ Len(share_codes) = NCodes
    /\ share_codes[1].uid = U1

-----------------------------------------------------------------------------
(* The registry and the rosters only grow *)

\* an entry of share_codes stays: its code maps to the same user after the step
CodesStay ==
    \A i \in 1..Len(share_codes) :
        /\ share_codes[i].code \in CodeKeys(share_codes')
        /\ CodeLookup(share_codes', share_codes[i].code) = share_codes[i].uid

\* an account stays, with its clients at their positions, its tier and limit
AccountsStay ==
    \A p \in DOMAIN professional_accounts :
        /\ p \in DOMAIN professional_accounts'
        /\ LET old == AccountOf(p)
               new == heap'[professional_accounts'[p]] IN
           /\ Len(new.clients) >= Len(old.clients)
           /\ SubSeq(new.clients, 1, Len(old.clients)) = old.clients
           /\ new.subscription_tier = "starter"
           /\ new.max_clients = 10

\* C18: once share_codes maps a code to a user it does so ever after; a
\* client of a professional stays in the list at its position; an account,
\* once created, is never removed and keeps tier "starter" and max_clients 10.
C18_OnlyGrows == [][CodesStay /\ AccountsStay]_vars

-----------------------------------------------------------------------------
(* The dashboard shows every client *)

\* every client of every professional has a reading
ClientsHaveReadings ==
    \A p \in DOMAIN professional_accounts :
        \A i \in 1..Len(AccountOf(p).clients) :
            AccountOf(p).clients[i] \in DOMAIN user_data

\* the dashboard of a professional with account has one row per client, in
\* the order of the list, each with the client's stored score and color
DashboardComplete ==
    (last.op = "dashboard" /\ last.req.professional_id \in DOMAIN professional_accounts)
        => LET clients == AccountOf(last.req.professional_id).clients
               rows == last.body.clients IN
           /\ Len(rows) = Len(clients)
           /\ \A i \in 1..Len(rows) :
                 /\ i <= Len(clients)
                 /\ clients[i] \in DOMAIN user_data
                 /\ rows[i].stamina_score = user_data[clients[i]].staminaScore
                 /\ rows[i].color = user_data[clients[i]].color
                 /\ rows[i].status = "connected"
           /\ last.body.client_count = Len(clients)
           /\ last.body.client_count <= last.body.max_clients

\* C19: every userID in a clients list has a reading in user_data, so the
\* dashboard of a professional with account omits no client: one row per
\* entry of the list, in its order, each with the client's latest score and
\* color and status "connected"; client_count is the length of the list and
\* never exceeds max_clients.
C19_DashboardShowsAll == ClientsHaveReadings /\ DashboardComplete

-----------------------------------------------------------------------------
(* The format of stored userIDs *)

\* only characters of the class, and more than 5 of them
PermissiveFormat(uid) == AllIn(uid, IdChars) /\ Len(uid) > 5

\* C20: every key of user_data has only characters of A-Z a-z 0-9 . _ - and
\* is longer than 5; a userID with any other character, a trailing newline
\* included, is answered 400 "Invalid userID format" by POST /stamina and
\* GET /latest.
C20_KeysWellFormed ==
    /\ \A uid \in DOMAIN user_data : PermissiveFormat(uid)
    /\ (last.op \in {"stamina", "latest"} /\ ~AllIn(last.req.userID, IdChars))
          => (last.status = 400 /\ last.body = "Invalid userID format")

=============================================================================
